---- MODULE Spec2Model ----
(***************************************************************************)
(* State-machine model of trainer/trainer.py (class Trainer): the epoch /  *)
(* batch driver, checkpoint save / restore, the mask-training hook and the *)
(* adversarial example generator.                                          *)
(*                                                                         *)
(* Collaborators whose code is not part of trainer.py (the process-wide    *)
(* batch timer, the monitor, prepare_eval) are modelled at their interface *)
(* as the specification describes them.                                    *)
(***************************************************************************)
EXTENDS Integers, Sequences, FiniteSets, TLC

\* ------------------------------------------------------------------ bounds
MaxEpoch == 3       \* the epoch counter is explored up to this value
MaxBatches == 2     \* len(train_loader) ranges over 1..MaxBatches
MaxNEpoch == 2      \* the n_epoch argument ranges over 0..MaxNEpoch
MaxStep == 2        \* the epoch_update_step argument ranges over 1..MaxStep
MaxIter == 2        \* the n_iter argument ranges over 0..MaxIter
MaxAmpl == 2        \* the noise_ampl argument ranges over 0..MaxAmpl
BatchLen == 2       \* samples in the batch drawn by next(iter(train_loader))
MaxLoss == 2        \* the loss of a batch ranges over 1..MaxLoss

\* ------------------------------------------------------------- data model
\* One abstract value per parameter tensor: finite contents ("v0" the
\* initial one), a tensor holding a NaN, a tensor holding an infinity (and
\* no NaN).
FiniteVals == {"v0", "v1"}
TrainVals == {"v0", "nan", "inf"}

\* A model is a function from its parameter names to [shape, data].
\* Three architectures: the reference one, one whose "b" has another shape,
\* one without "b".
ArchFull == [w |-> 1, b |-> 1]
ArchWide == [w |-> 1, b |-> 2]
ArchSmall == [w |-> 1]
Archs == {ArchFull, ArchWide, ArchSmall}

Arch(m) == [n \in DOMAIN m |-> m[n].shape]
FreshModel(arch, data) == [n \in DOMAIN arch |-> [shape |-> arch[n], data |-> data[n]]]

\* Tensors of a batch: one number per sample.
Pixels == {0, 1}
Labels == {0, 1}
Grads == {-1, 1}
Samples == 1..BatchLen
Zero == [i \in Samples |-> 0]
Add(x, y) == [i \in DOMAIN x |-> x[i] + y[i]]
Scale(a, x) == [i \in DOMAIN x |-> a * x[i]]
Batches == [images : [Samples -> Pixels], labels : [Samples -> Labels]]
OneBatch == {[images |-> Zero, labels |-> Zero]}

NoFile == [absent |-> TRUE]
NoRun == "none"

\* Classes of the criterion: TripletLoss derives from PairLoss, the other
\* one does not.
Criteria == {"CrossEntropyLoss", "PairLoss", "TripletLoss"}
DefaultCriterion == "CrossEntropyLoss"

\* isinstance(self.criterion, PairLoss)
IsPairLoss(crit) == crit \in {"PairLoss", "TripletLoss"}

\* Accuracy strategies; "None" is the omitted accuracy_measure argument.
Measures == {"AccuracyArgmax", "AccuracyEmbedding", "AccuracyCustom"}
MeasureArgs == {"None"} \cup Measures

\* The strategy follows the class name of the criterion.
SelectAccuracy_by_name(arg, crit) ==
    IF arg # "None" THEN arg
    ELSE IF crit = "PairLoss" THEN "AccuracyEmbedding" ELSE "AccuracyArgmax"

\* if accuracy_measure is None: AccuracyEmbedding for a PairLoss, else
\* AccuracyArgmax
SelectAccuracy(arg, crit) ==
    IF arg # "None" THEN arg
    ELSE IF IsPairLoss(crit) THEN "AccuracyEmbedding" ELSE "AccuracyArgmax"

\* env_name as built in __init__: date, model class, dataset, trainer class,
\* criterion class, then the optional suffix.
Suffixes == {"", "s"}
EnvPrefix == "2018.01.01 Model: ds Trainer"
EnvName(crit, env_suffix) ==
    IF env_suffix # "" THEN EnvPrefix \o " " \o crit \o " " \o env_suffix
                       ELSE EnvPrefix \o " " \o crit
Runs == {EnvName(c, s) : c \in Criteria, s \in Suffixes}

\* checkpoint_path: checkpoint_dir / (env_name + '.pt')
checkpoint_path(env) == env \o ".pt"
Paths == {checkpoint_path(r) : r \in Runs}

\* ------------------------------------------------------------------ timer
\* The process-wide epoch timer: batches seen and batches per epoch.
TimerInit(t, n) == [t EXCEPT !.batches_in_epoch = n]
TimerEpoch(t) == t.batch_id \div t.batches_in_epoch
TimerSetEpoch(t, e) == [t EXCEPT !.batch_id = t.batches_in_epoch * e]
\* A finished batch does not advance the timer.
TimerTick_skipped(t) == t

TimerTick(t) == [t EXCEPT !.batch_id = @ + 1]

\* ----------------------------------------------------------- running mean
\* MeanOnline: the number of observations and their sum; the mean is kept as
\* the fraction num / den, and is undefined without observations.
MeanOnlineNew == [count |-> 0, total |-> 0]

NoMean == [undefined |-> TRUE]
NotPushed == [none |-> TRUE]

MeanUpdate(acc, x) == [count |-> acc.count + 1, total |-> acc.total + x]
GetMean(acc) ==
    IF acc.count = 0 THEN NoMean ELSE [num |-> acc.total, den |-> acc.count]

\* Batch losses: any of them, or a fixed one.
Losses == 1..MaxLoss
OneLoss == {MaxLoss}

\* ---------------------------------------------------------------- monitor
MonitorNew == [is_active |-> FALSE, env_name |-> NoRun, n_clear |-> 0]
MonitorOpen(mon, env) == [mon EXCEPT !.is_active = TRUE, !.env_name = env]
MonitorClear(mon) == [mon EXCEPT !.n_clear = IF @ < 2 THEN @ + 1 ELSE @]

\* ------------------------------------------------------------- checkpoint
\* The checkpoint records the raw batch counter instead of the epoch.
state_dict_batch_counter(m, t, env) ==
    [model_state |-> m, epoch |-> t.batch_id, env_name |-> env]

\* The checkpoint records the index of the epoch just trained.
state_dict_loop_index(m, t, env) ==
    [model_state |-> m,
     epoch |-> IF TimerEpoch(t) > 0 THEN TimerEpoch(t) - 1 ELSE 0,
     env_name |-> env]

\* Trainer.state_dict
state_dict(m, t, env) ==
    [model_state |-> m, epoch |-> TimerEpoch(t), env_name |-> env]

\* model.load_state_dict(state, strict) as called by restore: every own
\* parameter found in the snapshot with the same shape is copied in place;
\* a shape mismatch, or under strict a missing or unexpected key, is
\* collected and raised as RuntimeError after the copies were made.
load_state_dict(m, state, strict) ==
    LET own == DOMAIN m
        keys == DOMAIN state
        mismatch == {n \in own \cap keys : state[n].shape # m[n].shape}
        copied == (own \cap keys) \ mismatch
        missing == own \ keys
        unexpected == keys \ own
    IN  [model |-> [n \in own |-> IF n \in copied THEN state[n] ELSE m[n]],
         raised |-> (mismatch # {}) \/ (strict /\ (missing \cup unexpected) # {}),
         mismatch |-> mismatch]

VARIABLES
    model,       \* self.model parameters
    criterion,   \* class of self.criterion
    accuracy_measure,  \* class of self.accuracy_measure
    training,    \* self.model.training (train / eval mode)
    env_name,    \* self.env_name
    timer,       \* the process-wide timer
    monitor,     \* self.monitor
    dir_exists,  \* the checkpoint directory exists
    fs,          \* checkpoint files: path -> checkpoint state or NoFile
    pc,          \* position of the caller inside train()
    tr,          \* locals of the running train() call
    ret,         \* the last call and how it ended
    events,      \* events of the epoch being processed, in order
    warned,      \* parameter names warned about after the last batch
    saved,       \* history: path -> orchestrator state at the last write
    applied,     \* history: epoch indices whose train_epoch completed on
                 \* the parameters self.model holds, in order
    adv,         \* locals and result of get_adversarial_examples / train_mask
    loader       \* the batch that next(iter(self.train_loader)) yields

vars == <<model, criterion, accuracy_measure, training, env_name, timer, monitor, dir_exists, fs, pc, tr,
          ret, events, warned, saved, applied, adv, loader>>

NoTrain == [epoch |-> 0, stop |-> 0, step |-> 1, batch |-> 0,
            adversarial |-> FALSE, mask_explain |-> FALSE, epoch0 |-> 0, n_epoch |-> 0,
            mode0 |-> TRUE, called |-> <<>>,
            loss_batch_average |-> MeanOnlineNew, losses |-> <<>>,
            pushed |-> NotPushed]

NoAdv == [call |-> "none"]

Idle == pc = "idle"

\* State after Trainer.__init__ of the first orchestrator of a process.
InitOf(archs, lens, batches, criteria, measures) ==
    /\ \E arch \in archs, nb \in lens :
          /\ model = FreshModel(arch, [n \in DOMAIN arch |-> "v0"])
          /\ timer = [batch_id |-> 0, batches_in_epoch |-> nb]
    /\ \E crit \in criteria, arg \in measures :
          /\ criterion = crit
          /\ accuracy_measure = SelectAccuracy(arg, crit)
          /\ env_name = EnvName(crit, "")
          /\ ret = [op |-> "init", outcome |-> "returned", accuracy_arg |-> arg]
    /\ loader \in batches
    /\ training = TRUE
    /\ monitor = MonitorNew
    /\ dir_exists = FALSE
    /\ fs = [p \in Paths |-> NoFile]
    /\ pc = "idle"
    /\ tr = NoTrain
    /\ events = <<>>
    /\ warned = {}
    /\ saved = [p \in Paths |-> NoFile]
    /\ applied = <<>>
    /\ adv = NoAdv

InitWith(archs, lens, batches) ==
    InitOf(archs, lens, batches, {DefaultCriterion}, {"None"})

Init == InitWith({ArchSmall, ArchFull}, {1}, OneBatch)

\* An orchestrator that has trained for some epochs and holds any parameter
\* values, before its first checkpoint was written.
InitTrained ==
    /\ \E arch \in Archs, nb \in {MaxBatches}, e \in 0..MaxEpoch :
          /\ \E data \in [DOMAIN arch -> FiniteVals] : model = FreshModel(arch, data)
          /\ timer = [batch_id |-> e * nb, batches_in_epoch |-> nb]
          /\ applied = [i \in 1..e |-> i - 1]
          /\ monitor = IF e > 0 THEN MonitorClear(MonitorOpen(MonitorNew,
                                                                   EnvName(DefaultCriterion, "")))
                                ELSE MonitorNew
    /\ loader \in OneBatch
    /\ criterion = DefaultCriterion
    /\ accuracy_measure = SelectAccuracy("None", DefaultCriterion)
    /\ training = TRUE
    /\ env_name = EnvName(DefaultCriterion, "")
    /\ dir_exists = FALSE
    /\ fs = [p \in Paths |-> NoFile]
    /\ pc = "idle"
    /\ tr = NoTrain
    /\ ret = [op |-> "trained", outcome |-> "returned"]
    /\ events = <<>>
    /\ warned = {}
    /\ saved = [p \in Paths |-> NoFile]
    /\ adv = NoAdv

\* No orchestrator: the constructor raised.
Unconstructed == pc = "unconstructed"

\* images, labels = next(iter(self.train_loader)): StopIteration when the
\* loader yields no batch.
FirstBatchMissing(nb) == nb = 0

\* Trainer.__init__ of a further orchestrator, in the same process (the
\* timer singleton is kept and re-initialised) or in a new one.
Construct(archs, dataVals, lens, suffixes, criteria, measures, processes) ==
    /\ Idle \/ Unconstructed
    /\ \E arch \in archs, nb \in lens, sfx \in suffixes, newProcess \in processes :
          /\ \E data \in [DOMAIN arch -> dataVals] : model' = FreshModel(arch, data)
          /\ timer' = TimerInit(IF newProcess THEN [batch_id |-> 0, batches_in_epoch |-> 1]
                                              ELSE timer, nb)
          /\ \E crit \in criteria, arg \in measures :
                /\ criterion' = crit
                /\ accuracy_measure' = SelectAccuracy(arg, crit)
                /\ env_name' = EnvName(crit, sfx)
                /\ ret' = [op |-> "init",
                           outcome |-> IF FirstBatchMissing(nb) THEN "raised"
                                                               ELSE "returned",
                           accuracy_arg |-> arg]
          /\ pc' = IF FirstBatchMissing(nb) THEN "unconstructed" ELSE "idle"
    /\ training' = TRUE
    /\ monitor' = MonitorNew
    /\ events' = <<>>
    /\ warned' = {}
    /\ tr' = NoTrain
    /\ applied' = <<>>
    /\ UNCHANGED <<dir_exists, fs, saved>>
    /\ UNCHANGED <<adv, loader>>

\* ------------------------------------------------------------------- save
\* Outcome of Trainer.save: mkdir(parents, exist_ok) outside the try block,
\* torch.save inside it (PermissionError caught and printed).
\*   mkdirDenied: mkdir raises PermissionError (only when it has to create)
\*   writeDenied: torch.save raises PermissionError
SaveOutcome(mkdirDenied, writeDenied) ==
    IF ~dir_exists /\ mkdirDenied
    THEN [raised |-> TRUE, dir |-> FALSE, wrote |-> FALSE, reported |-> FALSE]
    ELSE IF writeDenied
         THEN [raised |-> FALSE, dir |-> TRUE, wrote |-> FALSE, reported |-> TRUE]
         ELSE [raised |-> FALSE, dir |-> TRUE, wrote |-> TRUE, reported |-> FALSE]

\* The file is written under the run identifier without its suffix.
FsAfterSave_unsuffixed(o) ==
    IF o.wrote
    THEN [fs EXCEPT ![checkpoint_path(EnvName(criterion, ""))] =
              state_dict(model, timer, env_name)]
    ELSE fs

FsAfterSave(o) ==
    IF o.wrote
    THEN [fs EXCEPT ![checkpoint_path(env_name)] = state_dict(model, timer, env_name)]
    ELSE fs

SavedAfterSave(o) ==
    IF o.wrote
    THEN [saved EXCEPT ![checkpoint_path(env_name)] =
              [model |-> model, epoch |-> TimerEpoch(timer), env_name |-> env_name,
               applied |-> applied]]
    ELSE saved

Save ==
    /\ Idle
    /\ \E mkdirDenied \in BOOLEAN, writeDenied \in BOOLEAN :
          LET o == SaveOutcome(mkdirDenied, writeDenied) IN
          /\ dir_exists' = o.dir
          /\ fs' = FsAfterSave(o)
          /\ saved' = SavedAfterSave(o)
          /\ ret' = [op |-> "save",
                     outcome |-> IF o.raised THEN "raised" ELSE "returned",
                     error |-> IF o.raised THEN "PermissionError" ELSE "none",
                     reported |-> o.reported,
                     wrote |-> o.wrote]
    /\ tr' = NoTrain
    /\ events' = <<>>
    /\ warned' = {}
    /\ UNCHANGED <<model, training, env_name, timer, monitor, pc, applied>>
    /\ UNCHANGED <<adv, loader, criterion, accuracy_measure>>

\* ---------------------------------------------------------------- restore
\* if checkpoint_path is None: checkpoint_path = self.checkpoint_path
RestorePath(arg) == IF arg = "None" THEN checkpoint_path(env_name) ELSE arg

\* The checkpoint_path arguments restore is called with: none, or the
\* checkpoint of a run of the default criterion.
RestoreArgs ==
    {"None"} \cup {checkpoint_path(EnvName(DefaultCriterion, sfx)) : sfx \in Suffixes}

\* The existence check is lost.
checkpoint_exists_always(files, path) == TRUE

\* checkpoint_path.exists()
checkpoint_exists(files, path) == files[path] # NoFile

\* The stream is opened under the identifier derived at construction.
RestoredStream_constructed(current, state) == current

\* self.env_name = checkpoint_state['env_name'];
\* self.monitor.open(env_name=self.env_name)
RestoredStream(current, state) == state.env_name

RestoreRet(path, strict, outcome, value, reported) ==
    [op |-> "restore", outcome |-> outcome, value |-> value, path |-> path,
     strict |-> strict, reported |-> reported, fresh |-> ret.op = "init",
     env_before |-> env_name]

Restore ==
    /\ Idle
    /\ \E arg \in RestoreArgs, strict \in BOOLEAN :
          LET path == RestorePath(arg)
              loaded == load_state_dict(model, fs[path].model_state, strict)
          IN
          IF ~checkpoint_exists(fs, path)
          THEN \* reported, nothing restored
               /\ ret' = RestoreRet(path, strict, "returned", "None", "missing")
               /\ UNCHANGED <<model, env_name, timer, monitor, applied>>
          ELSE IF fs[path] = NoFile
          THEN \* torch.load of a file that is not there: FileNotFoundError
               /\ ret' = RestoreRet(path, strict, "raised", "FileNotFoundError", "none")
               /\ UNCHANGED <<model, env_name, timer, monitor, applied>>
          ELSE IF loaded.raised
          THEN \* RuntimeError caught and reported
               /\ model' = loaded.model
               /\ ret' = RestoreRet(path, strict, "returned", "None", "error")
               /\ UNCHANGED <<env_name, timer, monitor, applied>>
          ELSE /\ model' = loaded.model
               /\ env_name' = fs[path].env_name
               /\ timer' = TimerSetEpoch(timer, fs[path].epoch)
               /\ monitor' = MonitorOpen(monitor, RestoredStream(env_name, fs[path]))
               /\ ret' = RestoreRet(path, strict, "returned", "state", "restored")
               /\ applied' = saved[path].applied
    /\ tr' = NoTrain
    /\ events' = <<>>
    /\ warned' = {}
    /\ UNCHANGED <<training, dir_exists, fs, pc, saved>>
    /\ UNCHANGED <<adv, loader, criterion, accuracy_measure>>

\* ------------------------------------------------- scoped evaluation mode
\* prepare_eval(model): remembers model.training and switches to eval mode;
\* mode_saved.restore(model) puts the remembered mode back.
prepare_eval(mode) == [mode_saved |-> mode, training |-> FALSE]
mode_restore(mode_saved) == mode_saved

\* Places where train_mask can fail: drawing the batch (before prepare_eval),
\* the forward pass / predict_proba, the delegated monitor.plot_mask.
MaskFailures == {"none", "loader", "forward", "plot_mask"}

\* model.training when train_mask exits: mode_saved.restore is the statement
\* after plot_mask, reached only when nothing raised.
train_mask_mode(mode, fail) ==
    IF fail = "loader" THEN mode
    ELSE IF fail = "none" THEN mode_restore(prepare_eval(mode).mode_saved)
    ELSE prepare_eval(mode).training

\* Places where get_adversarial_examples can fail: drawing the batch (before
\* prepare_eval), and inside an iteration the forward pass, the loss and the
\* gradient computation.
AdvFailures == {"none", "loader", "forward", "loss", "backward"}

\* model.training when get_adversarial_examples exits with n_iter iterations.
adversarial_mode(mode, n_iter, fail) ==
    IF fail = "loader" THEN mode
    ELSE IF fail = "none" \/ n_iter <= 0 THEN mode_restore(prepare_eval(mode).mode_saved)
    ELSE prepare_eval(mode).training

\* ------------------------------------------------------------------ train
\* The range ends at n_epoch instead of n_epoch epochs after its start.
LoopRange_absolute(t, n_epoch) == [first |-> TimerEpoch(t), stop |-> n_epoch]

\* for epoch in range(self.timer.epoch, self.timer.epoch + n_epoch)
LoopRange(t, n_epoch) == [first |-> TimerEpoch(t), stop |-> TimerEpoch(t) + n_epoch]

\* The cadence is taken on the count of finished epochs.
IsEvalEpoch_finished(epoch, epoch_update_step) == (epoch + 1) % epoch_update_step = 0

\* if epoch % epoch_update_step == 0
IsEvalEpoch(epoch, epoch_update_step) == epoch % epoch_update_step = 0

\* Every train call opens and clears.
MonitorForTrain_always(mon, env) == MonitorClear(MonitorOpen(mon, env))

\* if not self.monitor.is_active: open(env_name); clear()
MonitorForTrain(mon, env) ==
    IF ~mon.is_active THEN MonitorClear(MonitorOpen(mon, env)) ELSE mon

\* The scan tests for any non-finite value.
IsNaN_nonfinite(data) == data \in {"nan", "inf"}

\* for name, param in named_parameters(): if torch.isnan(param).any(): warn
IsNaN(data) == data = "nan"
NaNParams(m) == {n \in DOMAIN m : IsNaN(m[n].data)}

\* default arguments of get_adversarial_examples as called from train
DefaultNIter == 10

Metadata == <<"log_model", "log_self", "log_trainer">>

TrainStart(flags) ==
    /\ Idle
    /\ \E n_epoch \in 0..MaxNEpoch, step \in 1..MaxStep,
          adversarial \in flags, mask_explain \in flags :
          LET range == LoopRange(timer, n_epoch) IN
          /\ range.stop <= MaxEpoch
          /\ tr' = [epoch |-> range.first, stop |-> range.stop, step |-> step,
                    batch |-> 0, adversarial |-> adversarial,
                    mask_explain |-> mask_explain, epoch0 |-> TimerEpoch(timer),
                    n_epoch |-> n_epoch, mode0 |-> training, called |-> <<>>,
                    loss_batch_average |-> MeanOnlineNew, losses |-> <<>>,
                    pushed |-> NotPushed]
          /\ pc' = IF range.first < range.stop THEN "train_epoch" ELSE "idle"
          /\ ret' = [op |-> "train",
                     outcome |-> IF range.first < range.stop THEN "running" ELSE "returned",
                     cleared |-> MonitorForTrain(monitor, env_name).n_clear # monitor.n_clear,
                     was_active |-> monitor.is_active,
                     prev |-> IF ret.op = "restore" THEN ret.value ELSE ret.op]
    /\ monitor' = MonitorForTrain(monitor, env_name)
    /\ events' = Metadata
    /\ warned' = {}
    /\ UNCHANGED <<model, training, env_name, timer, dir_exists, fs, saved, applied>>
    /\ UNCHANGED <<adv, loader, criterion, accuracy_measure>>

Raised(what) ==
    [op |-> "train", outcome |-> "raised", error |-> what,
     cleared |-> ret.cleared, was_active |-> ret.was_active, prev |-> ret.prev]

\* The accumulator of the previous epoch is used on.
EpochAccumulator_kept(t) == t.loss_batch_average

\* loss_batch_average = MeanOnline() at the start of train_epoch
EpochAccumulator(t) == IF t.batch = 0 THEN MeanOnlineNew ELSE t.loss_batch_average

\* The batch loop ends after its first batch.
LastBatch_first(n, nb) == TRUE

\* for images, labels in self.train_loader: the loop ends when the n-th
\* batch was the last of the nb batches of the loader
LastBatch(n, nb) == n = nb

\* Statements of train_epoch after the batch loop: the averaged batch loss
\* and, unless the strategy is AccuracyArgmax, sparsity and density.
AfterLoop(measure) ==
    <<"update_loss_batch">>
        \o (IF measure # "AccuracyArgmax"
            THEN <<"update_sparsity", "update_density">> ELSE <<>>)

\* One iteration of the batch loop of train_epoch; the last one also runs the
\* statements after the loop.
TrainBatch(dataVals, fails, lossVals) ==
    /\ pc = "train_epoch"
    /\ \E fail \in fails, data \in [DOMAIN model -> dataVals], loss \in lossVals :
          LET average == MeanUpdate(EpochAccumulator(tr), loss)
              losses == (IF tr.batch = 0 THEN <<>> ELSE tr.losses) \o <<loss>>
              base == IF tr.batch = 0 /\ tr.epoch > tr.epoch0 THEN <<>> ELSE events
              last == LastBatch(tr.batch + 1, timer.batches_in_epoch)
              trained == [n \in DOMAIN model |-> [model[n] EXCEPT !.data = data[n]]]
          IN
          IF fail
          THEN /\ pc' = "idle"
               /\ ret' = Raised("train_batch")
               /\ events' = base
               /\ tr' = [tr EXCEPT !.called = IF tr.batch = 0 THEN Append(@, tr.epoch) ELSE @]
               /\ UNCHANGED <<model, timer, warned, applied>>
          ELSE /\ model' = trained
               /\ warned' = NaNParams(trained)
               /\ timer' = TimerTick(timer)
               /\ tr' = [tr EXCEPT !.batch = @ + 1,
                                   !.called = IF tr.batch = 0 THEN Append(@, tr.epoch) ELSE @,
                                   !.loss_batch_average = average,
                                   !.losses = losses,
                                   !.pushed = IF last THEN GetMean(average) ELSE @]
               /\ events' = base \o <<"train_batch">>
                                 \o (IF NaNParams(trained) # {} THEN <<"warning">> ELSE <<>>)
                                 \o <<"batch_finished">>
                                 \o (IF last THEN AfterLoop(accuracy_measure) ELSE <<>>)
               /\ pc' = IF last THEN "epoch_end" ELSE "train_epoch"
               /\ applied' = IF last THEN Append(applied, tr.epoch) ELSE applied
               /\ UNCHANGED ret
    /\ UNCHANGED <<training, env_name, monitor, dir_exists, fs, saved>>
    /\ UNCHANGED <<adv, loader, criterion, accuracy_measure>>

\* Loop step after the body of the for loop over epochs.
Advance(t) ==
    IF t.epoch + 1 < t.stop
    THEN [pc |-> "train_epoch", tr |-> [t EXCEPT !.epoch = @ + 1, !.batch = 0],
          outcome |-> "running"]
    ELSE [pc |-> "idle", tr |-> [t EXCEPT !.epoch = @ + 1, !.batch = 0],
          outcome |-> "returned"]

\* An epoch that is not an evaluation epoch.
SkipEvaluation ==
    /\ pc = "epoch_end"
    /\ ~IsEvalEpoch(tr.epoch, tr.step)
    /\ pc' = Advance(tr).pc
    /\ tr' = Advance(tr).tr
    /\ ret' = [ret EXCEPT !.outcome = Advance(tr).outcome]
    /\ UNCHANGED <<model, training, env_name, timer, monitor, dir_exists, fs,
                   events, warned, saved, applied>>
    /\ UNCHANGED <<adv, loader, criterion, accuracy_measure>>

\* Steps of an evaluation epoch in program order, cut at the first failure.
EvalFailures == {"none", "full_forward", "adversarial", "train_mask", "mkdir"}

\* The sink gets the epoch-finished event before the strategy is calibrated.
EvalEvents_calibrate_late(t, fail) ==
    LET s1 == <<"full_forward">>
        s2 == <<"epoch_finished", "calibrate">>
        s3 == IF t.adversarial
              THEN <<"get_adversarial_examples">>
                   \o (IF fail = "adversarial" THEN <<>> ELSE <<"plot_adversarial_examples">>)
              ELSE <<>>
        s4 == IF t.mask_explain THEN <<"train_mask">> ELSE <<>>
        s5 == <<"criterion", "update_loss_full", "save">>
    IN  IF fail = "full_forward" THEN s1
        ELSE IF fail = "adversarial" THEN s1 \o s2 \o s3
        ELSE IF fail = "train_mask" THEN s1 \o s2 \o s3 \o s4
        ELSE s1 \o s2 \o s3 \o s4 \o s5

EvalEvents(t, fail) ==
    LET s1 == <<"full_forward">>
        s2 == <<"calibrate", "epoch_finished">>
        s3 == IF t.adversarial
              THEN <<"get_adversarial_examples">>
                   \o (IF fail = "adversarial" THEN <<>> ELSE <<"plot_adversarial_examples">>)
              ELSE <<>>
        s4 == IF t.mask_explain THEN <<"train_mask">> ELSE <<>>
        s5 == <<"criterion", "update_loss_full", "save">>
    IN  IF fail = "full_forward" THEN s1
        ELSE IF fail = "adversarial" THEN s1 \o s2 \o s3
        ELSE IF fail = "train_mask" THEN s1 \o s2 \o s3 \o s4
        ELSE s1 \o s2 \o s3 \o s4 \o s5

EvalMode(t, mode, fail) ==
    LET m1 == IF t.adversarial
              THEN adversarial_mode(mode, DefaultNIter,
                                    IF fail = "adversarial" THEN "backward" ELSE "none")
              ELSE mode
    IN  IF fail \in {"full_forward"} THEN mode
        ELSE IF fail = "adversarial" THEN m1
        ELSE IF t.mask_explain
             THEN train_mask_mode(m1, IF fail = "train_mask" THEN "plot_mask" ELSE "none")
             ELSE m1

\* The checkpoint is written although an earlier step failed.
ReachedSave_always(fail) == TRUE

\* self._epoch_finished, and in it self.save, is the last statement of the
\* evaluation epoch: it is reached when no step before it raised.
ReachedSave(fail) == fail \in {"none", "mkdir"}

Evaluate(fails) ==
    /\ pc = "epoch_end"
    /\ IsEvalEpoch(tr.epoch, tr.step)
    /\ \E fail \in fails, writeDenied \in BOOLEAN :
          LET o == SaveOutcome(fail = "mkdir", writeDenied)
              reachedSave == ReachedSave(fail)
              stepFailed == fail \notin {"none", "mkdir"}
              raised == stepFailed \/ (reachedSave /\ o.raised)
          IN
          /\ fail = "adversarial" => tr.adversarial
          /\ fail = "train_mask" => tr.mask_explain
          /\ fail = "mkdir" => ~dir_exists
          /\ events' = events \o EvalEvents(tr, fail)
          /\ training' = EvalMode(tr, training, fail)
          /\ IF reachedSave
             THEN /\ dir_exists' = o.dir
                  /\ fs' = FsAfterSave(o)
                  /\ saved' = SavedAfterSave(o)
             ELSE UNCHANGED <<dir_exists, fs, saved>>
          /\ IF raised
             THEN /\ pc' = "idle"
                  /\ ret' = Raised(IF stepFailed THEN fail ELSE "PermissionError")
                  /\ UNCHANGED tr
             ELSE /\ pc' = Advance(tr).pc
                  /\ tr' = Advance(tr).tr
                  /\ ret' = [ret EXCEPT !.outcome = Advance(tr).outcome]
    /\ UNCHANGED <<model, env_name, timer, monitor, warned, applied>>
    /\ UNCHANGED <<adv, loader, criterion, accuracy_measure>>

\* ------------------------------------------------- adversarial examples
\* images_orig is the working batch itself.
clone_alias(ref) == ref

\* images_orig = images.clone(): a new tensor, named "copy" in the heap
clone(ref) == "copy"

\* images.grad = None
clear_grad(grad) == Zero

\* Statements after the loop: mode_saved.restore and the returned triple.
AdvReturn(a) ==
    [a EXCEPT !.result = [original |-> a.heap[a.images_orig],
                          adversarial |-> a.heap[a.images],
                          labels |-> a.labels]]

AdvRet(outcome, error, mode_before) ==
    [op |-> "get_adversarial_examples", outcome |-> outcome, error |-> error,
     mode_before |-> mode_before]

\* get_adversarial_examples up to the first iteration of its loop (to its
\* return when n_iter is 0).
GetAdversarialExamples ==
    /\ Idle
    /\ \E noise_ampl \in 0..MaxAmpl, n_iter \in 0..MaxIter, fail \in {"none", "loader"} :
          LET entered == [call |-> "get_adversarial_examples",
                          heap |-> [batch |-> loader.images, copy |-> loader.images],
                          images |-> "batch",
                          images_orig |-> clone("batch"),
                          labels |-> loader.labels,
                          grad |-> Zero,
                          noise_ampl |-> noise_ampl, n_iter |-> n_iter, i |-> 0,
                          gsum |-> Zero,
                          mode_saved |-> prepare_eval(training).mode_saved,
                          result |-> "none"]
          IN
          IF fail = "loader"
          THEN /\ ret' = AdvRet("raised", "loader", training)
               /\ adv' = NoAdv
               /\ UNCHANGED <<training, pc>>
          ELSE IF n_iter > 0
          THEN /\ ret' = AdvRet("running", "none", training)
               /\ adv' = entered
               /\ training' = prepare_eval(training).training
               /\ pc' = "adversarial"
          ELSE /\ ret' = AdvRet("returned", "none", training)
               /\ adv' = AdvReturn(entered)
               /\ training' = mode_restore(entered.mode_saved)
               /\ UNCHANGED pc
    /\ tr' = NoTrain
    /\ events' = <<>>
    /\ warned' = {}
    /\ UNCHANGED <<model, env_name, timer, monitor, dir_exists, fs, saved, loader>>
    /\ UNCHANGED <<criterion, accuracy_measure, applied>>

\* One iteration of the perturbation loop; g is what loss.backward() adds to
\* images.grad. The last iteration also runs the statements after the loop.
AdversarialIteration ==
    /\ pc = "adversarial"
    /\ \E fail \in AdvFailures \ {"loader"}, g \in [Samples -> Grads] :
          LET grad == Add(clear_grad(adv.grad), g)
              adv_noise == Scale(adv.noise_ampl, grad)
              stepped == [adv EXCEPT !.heap[adv.images] = Add(@, adv_noise),
                                     !.grad = grad,
                                     !.gsum = Add(@, g),
                                     !.i = @ + 1]
              last == adv.i + 1 = adv.n_iter
          IN
          IF fail # "none"
          THEN /\ ret' = AdvRet("raised", fail, ret.mode_before)
               /\ adv' = NoAdv
               /\ pc' = "idle"
               /\ UNCHANGED training
          ELSE IF last
          THEN /\ ret' = AdvRet("returned", "none", ret.mode_before)
               /\ adv' = AdvReturn(stepped)
               /\ training' = mode_restore(adv.mode_saved)
               /\ pc' = "idle"
          ELSE /\ adv' = stepped
               /\ UNCHANGED <<ret, training, pc>>
    /\ UNCHANGED <<model, env_name, timer, monitor, dir_exists, fs, tr, events,
                   warned, saved, loader>>
    /\ UNCHANGED <<criterion, accuracy_measure, applied>>

\* train_mask: the sample of the drawn batch with the largest maximal class
\* probability (sample_max_proba, decided by the model output) is handed to
\* monitor.plot_mask and returned.
TrainMask ==
    /\ Idle
    /\ \E sample_max_proba \in Samples, fail \in MaskFailures :
          /\ training' = train_mask_mode(training, fail)
          /\ ret' = [op |-> "train_mask",
                     outcome |-> IF fail = "none" THEN "returned" ELSE "raised",
                     error |-> fail,
                     mode_before |-> training]
          /\ adv' = IF fail # "none"
                    THEN NoAdv
                    ELSE [call |-> "train_mask",
                          image |-> loader.images[sample_max_proba],
                          label |-> loader.labels[sample_max_proba]]
    /\ tr' = NoTrain
    /\ events' = <<>>
    /\ warned' = {}
    /\ UNCHANGED <<model, env_name, timer, monitor, dir_exists, fs, pc, saved, loader>>
    /\ UNCHANGED <<criterion, accuracy_measure, applied>>

\* Life cycle of a run: construction, training without the optional
\* adversarial / mask steps, save and restore.
Next ==
    \/ Construct({ArchSmall, ArchFull}, {"v0"}, {1}, {""}, {DefaultCriterion}, {"None"},
                 BOOLEAN)
    \/ Save
    \/ Restore
    \/ TrainStart({FALSE})
    \/ TrainBatch({"v1"}, {FALSE}, OneLoss)
    \/ SkipEvaluation
    \/ Evaluate({"none", "mkdir"})

Spec == Init /\ [][Next]_vars

\* Checkpoints of trained orchestrators restored into fresh ones.
NextCkpt ==
    \/ Construct(Archs, {"v0"}, {MaxBatches}, Suffixes, {DefaultCriterion}, {"None"},
                 BOOLEAN)
    \/ Save
    \/ Restore

SpecCkpt == InitTrained /\ [][NextCkpt]_vars

\* The training driver with every optional step and every failure.
NextTrain ==
    \/ TrainStart(BOOLEAN)
    \/ TrainBatch({"v1"}, BOOLEAN, OneLoss)
    \/ SkipEvaluation
    \/ Evaluate(EvalFailures)

SpecTrain == InitWith({ArchFull}, 1..MaxBatches, OneBatch) /\ [][NextTrain]_vars

\* The training driver when no step fails: train_batch, the evaluation steps
\* and the loader (finite, so each next batch or the end of the loader is
\* delivered) always complete, which is the fairness of the three loop steps.
NextDriver ==
    \/ TrainStart(BOOLEAN)
    \/ TrainBatch({"v1"}, {FALSE}, OneLoss)
    \/ SkipEvaluation
    \/ Evaluate({"none"})

SpecDriver ==
    /\ InitWith({ArchFull}, 1..MaxBatches, OneBatch)
    /\ [][NextDriver]_vars
    /\ WF_vars(TrainBatch({"v1"}, {FALSE}, OneLoss))
    /\ WF_vars(SkipEvaluation)
    /\ WF_vars(Evaluate({"none"}))

\* The training driver on parameters that may turn non-finite.
NextNaN ==
    \/ TrainStart({FALSE})
    \/ TrainBatch(TrainVals, BOOLEAN, OneLoss)
    \/ SkipEvaluation
    \/ Evaluate({"none"})

SpecNaN == InitWith({ArchFull}, 1..MaxBatches, OneBatch) /\ [][NextNaN]_vars

\* The two probes of the model called on their own.
NextAdv ==
    \/ GetAdversarialExamples
    \/ AdversarialIteration
    \/ TrainMask

SpecAdv == InitWith({ArchSmall}, {1}, Batches) /\ [][NextAdv]_vars

\* One run trained, saved and restored, by the orchestrator that wrote the
\* checkpoint or by one constructed in a later process.
NextRun ==
    \/ Construct({ArchFull}, {"v0"}, 1..MaxBatches, Suffixes, {DefaultCriterion}, {"None"},
                 {TRUE})
    \/ Save
    \/ Restore
    \/ TrainStart({FALSE})
    \/ TrainBatch({"v1"}, {FALSE}, OneLoss)
    \/ SkipEvaluation
    \/ Evaluate({"none"})

SpecRun == InitWith({ArchFull}, 1..MaxBatches, OneBatch) /\ [][NextRun]_vars

\* The operations that could touch the run identifier or the checkpoint
\* files, on two runs and two architectures: construction, save, restore
\* (successful or not), train with the adversarial and the mask step.
NextFrame ==
    \/ Construct({ArchFull}, {"v0"}, {1}, Suffixes, {DefaultCriterion}, {"None"}, {TRUE})
    \/ Save
    \/ Restore
    \/ TrainStart({TRUE})
    \/ TrainBatch({"v1"}, {FALSE}, OneLoss)
    \/ SkipEvaluation
    \/ Evaluate({"none"})

SpecFrame == InitWith({ArchSmall, ArchFull}, {1}, OneBatch) /\ [][NextFrame]_vars

\* Construction over loaders of every length, also the empty one, and
\* training with every sequence of batch losses.
NextMean ==
    \/ Construct({ArchFull}, {"v0"}, 0..MaxBatches, {""}, {DefaultCriterion}, {"None"},
                 {TRUE})
    \/ TrainStart({FALSE})
    \/ TrainBatch({"v1"}, BOOLEAN, Losses)
    \/ SkipEvaluation
    \/ Evaluate({"none"})

SpecMean == InitWith({ArchFull}, 1..MaxBatches, OneBatch) /\ [][NextMean]_vars

\* Construction with every model, criterion, accuracy strategy, suffix and
\* loader length.
NextBuild ==
    Construct(Archs, {"v0"}, 0..MaxBatches, Suffixes, Criteria, MeasureArgs, BOOLEAN)

SpecBuild ==
    InitOf(Archs, 1..MaxBatches, OneBatch, Criteria, MeasureArgs) /\ [][NextBuild]_vars

\* ======================================================================
\* Properties
\* ======================================================================
Restored == ret.op = "restore" /\ ret.outcome = "returned" /\ ret.value = "state"

\* C1: checkpoint round trip. After a restore that loaded the checkpoint at
\* ret.path into an orchestrator of the same architecture as the one that
\* saved it, the parameters, the epoch counter and the run identifier equal
\* those the saving orchestrator had when it wrote the checkpoint.
C1_RoundTrip ==
    (Restored /\ Arch(model) = Arch(saved[ret.path].model))
        => /\ model = saved[ret.path].model
           /\ TimerEpoch(timer) = saved[ret.path].epoch
           /\ env_name = saved[ret.path].env_name

\* A freshly constructed orchestrator of another run restored a checkpoint
\* holding trained parameters and a positive epoch.
C1_Witness ==
    /\ Restored
    /\ ret.fresh
    /\ Arch(model) = Arch(saved[ret.path].model)
    /\ saved[ret.path].epoch > 0
    /\ ret.env_before # env_name
    /\ \E n \in DOMAIN model : model[n].data = "v1"

\* C2: restoring a missing checkpoint is a no-op. A restore step whose path
\* (given or derived) holds no file returns None without raising and leaves
\* parameters, epoch counter, run identifier and monitor unchanged.
C2_RestoreMissingNoOp ==
    [][(ret'.op = "restore" /\ fs[ret'.path] = NoFile)
          => /\ ret'.outcome = "returned"
             /\ ret'.value = "None"
             /\ UNCHANGED <<model, timer, env_name, monitor>>]_vars

\* A restore found no file on an orchestrator that has trained and whose
\* monitor is open, while the other run's checkpoint exists.
C2_Witness ==
    /\ ret.op = "restore"
    /\ ret.reported = "missing"
    /\ TimerEpoch(timer) > 0
    /\ monitor.is_active
    /\ \E p \in Paths : fs[p] # NoFile

ShapeMismatch(m, state) ==
    \E n \in DOMAIN m \cap DOMAIN state : state[n].shape # m[n].shape

\* C3: strict restore is atomic on failure. A restore(strict=True) step that
\* meets a snapshot with a parameter-shape mismatch returns None without
\* raising and leaves every parameter, the epoch counter and the run
\* identifier unchanged.
C3_StrictRestoreAtomic ==
    [][(/\ ret'.op = "restore"
        /\ ret'.strict
        /\ fs[ret'.path] # NoFile
        /\ ShapeMismatch(model, fs[ret'.path].model_state))
          => /\ ret'.outcome = "returned"
             /\ ret'.value = "None"
             /\ model' = model
             /\ UNCHANGED <<timer, env_name>>]_vars

Occurs(e) == \E i \in DOMAIN events : events[i] = e
Count(e) == Cardinality({i \in DOMAIN events : events[i] = e})

TrainReturned == ret.op = "train" /\ ret.outcome = "returned"

\* C4: epoch monotonicity of train. When train(n_epoch) returns normally the
\* epoch counter is its value at the call plus n_epoch, for every
\* epoch_update_step.
C4_EpochAdvance ==
    TrainReturned => TimerEpoch(timer) = tr.epoch0 + tr.n_epoch

\* train returned after several epochs of several batches with a cadence
\* that skips epochs.
C4_Witness ==
    /\ TrainReturned
    /\ tr.n_epoch >= 2
    /\ tr.step >= 2
    /\ timer.batches_in_epoch >= 2

\* The loop body of epoch tr.epoch - 1 has completed and events holds what
\* happened in it.
EpochProcessed ==
    /\ ret.op = "train"
    /\ ret.outcome \in {"running", "returned"}
    /\ tr.batch = 0
    /\ tr.epoch > tr.epoch0

EvalSteps == {"full_forward", "calibrate", "epoch_finished", "save"}

\* C5: evaluation cadence. The full-dataset forward pass, the calibration,
\* the epoch-finished event and the call of save happen after train_epoch(e)
\* exactly when e mod epoch_update_step = 0: all of them in a completed
\* evaluation epoch, none of them in any other epoch.
C5_Cadence ==
    /\ EpochProcessed
          => \A s \in EvalSteps : Occurs(s) <=> ((tr.epoch - 1) % tr.step = 0)
    /\ (ret.op = "train" /\ ~EpochProcessed)
          => \A s \in EvalSteps : Occurs(s) => (tr.epoch % tr.step = 0)

\* A train resumed after a restore, at an epoch that is no multiple of the
\* cadence, has completed an evaluation epoch.
C5_Witness ==
    /\ EpochProcessed
    /\ ret.prev = "state"
    /\ tr.epoch0 % tr.step # 0
    /\ Occurs("full_forward")
    /\ Occurs("save")

\* C6: fresh-start clear versus resume. train clears the monitoring stream
\* exactly when the stream was not open at the call; not after a successful
\* restore; after a restore that restored nothing on a stream not yet open it
\* opens and clears; one orchestrator never clears twice.
C6_ClearOnlyFresh ==
    /\ monitor.n_clear <= 1
    /\ ret.op = "train"
          => /\ ret.cleared <=> ~ret.was_active
             /\ ret.prev = "state" => ~ret.cleared
             /\ (ret.prev = "None" /\ ~ret.was_active)
                   => (ret.cleared /\ monitor.is_active)

\* train ran right after a successful restore on an orchestrator that has
\* never cleared its stream.
C6_Witness ==
    /\ ret.op = "train"
    /\ ret.prev = "state"
    /\ ~ret.cleared
    /\ monitor.n_clear = 0
    /\ monitor.is_active

\* A batch of the running epoch has just been trained.
AfterBatch ==
    /\ ret.op = "train"
    /\ ret.outcome = "running"
    /\ pc = "epoch_end" \/ (pc = "train_epoch" /\ tr.batch > 0)

NonFiniteParams(m) == {n \in DOMAIN m : m[n].data \in {"nan", "inf"}}

C9_PermissionNonFatal ==
    /\ ret.op = "save" => ret.outcome = "returned"
    /\ (ret.op = "train" /\ ret.outcome = "raised") => ret.error # "PermissionError"

ProbeExited ==
    /\ ret.op \in {"train_mask", "get_adversarial_examples"}
    /\ ret.outcome \in {"returned", "raised"}

\* C7: scoped evaluation-mode switch. On every exit of train_mask and of
\* get_adversarial_examples, by return or by a raised failure, the model is
\* in the train / eval mode it had when the call started.
C7_ModeRestored ==
    ProbeExited => training = ret.mode_before

AdvReturned == ret.op = "get_adversarial_examples" /\ ret.outcome = "returned"

\* C10: adversarial example invariants. The returned perturbed batch has the
\* shape of the original, the returned original equals the batch as drawn,
\* the labels equal the drawn labels, with no iteration the perturbed batch
\* equals the original, and after n iterations it is the drawn batch plus
\* noise_ampl times each iteration's gradient.
C10_AdversarialExamples ==
    AdvReturned
        => /\ DOMAIN adv.result.adversarial = DOMAIN adv.result.original
           /\ adv.result.original = loader.images
           /\ adv.result.labels = loader.labels
           /\ adv.n_iter = 0 => adv.result.adversarial = adv.result.original
           /\ adv.n_iter >= 1
                 => adv.result.adversarial
                       = Add(loader.images, Scale(adv.noise_ampl, adv.gsum))

\* Several iterations with a positive amplitude moved every sample away from
\* the drawn batch.
C10_Witness ==
    /\ AdvReturned
    /\ adv.n_iter >= 2
    /\ adv.noise_ampl >= 1
    /\ \A i \in Samples : adv.result.adversarial[i] # loader.images[i]

\* C11: a successful restore rebinds the run. A restore step whose file exists
\* and whose parameters load returns the checkpoint state, sets the run
\* identifier and the epoch counter to the stored values and opens the
\* monitoring stream under the stored identifier; every other restore step
\* leaves run identifier, epoch counter and monitoring stream all unchanged.
C11_RestoreRebinds ==
    [][(ret'.op = "restore")
          => LET state == fs[ret'.path] IN
             IF /\ state # NoFile
                /\ ~load_state_dict(model, state.model_state, ret'.strict).raised
             THEN /\ ret'.outcome = "returned"
                  /\ ret'.value = "state"
                  /\ env_name' = state.env_name
                  /\ TimerEpoch(timer') = state.epoch
                  /\ monitor'.is_active
                  /\ monitor'.env_name = state.env_name
             ELSE UNCHANGED <<env_name, timer, monitor>>]_vars

\* An orchestrator constructed under one run identifier restored the
\* checkpoint of another run with a positive epoch: its stream is open under
\* the restored identifier, not the constructed one.
C11_Witness ==
    /\ Restored
    /\ ret.fresh
    /\ env_name # ret.env_before
    /\ monitor.is_active
    /\ monitor.env_name = env_name
    /\ monitor.env_name # ret.env_before
    /\ TimerEpoch(timer) = fs[ret.path].epoch
    /\ fs[ret.path].epoch > 0

Constructed == ret.op = "init" /\ ret.outcome = "returned"

\* C12: accuracy-strategy auto-selection. An orchestrator constructed without
\* an accuracy strategy holds the embedding-distance strategy when its
\* criterion is a pair loss (PairLoss or a class derived from it) and the
\* argmax strategy for every other criterion; a strategy passed explicitly
\* is the one it holds, whatever the criterion.
C12_AccuracySelection ==
    Constructed
        => /\ (ret.accuracy_arg = "None" /\ criterion \in {"PairLoss", "TripletLoss"})
                 => accuracy_measure = "AccuracyEmbedding"
           /\ (ret.accuracy_arg = "None" /\ criterion \notin {"PairLoss", "TripletLoss"})
                 => accuracy_measure = "AccuracyArgmax"
           /\ ret.accuracy_arg # "None" => accuracy_measure = ret.accuracy_arg

\* An orchestrator was constructed with a loss derived from PairLoss and no
\* strategy, and holds the embedding-distance strategy.
C12_Witness ==
    /\ Constructed
    /\ ret.accuracy_arg = "None"
    /\ criterion = "TripletLoss"
    /\ accuracy_measure = "AccuracyEmbedding"
    /\ env_name = EnvName("TripletLoss", "s")

\* C13 as claimed: no step of train, of save or of a restore of the run's own
\* checkpoint decreases the epoch counter.
C13_EpochNeverDecreases ==
    [][(\/ ret'.op \in {"train", "save"}
        \/ ret'.op = "restore" /\ ret'.path = checkpoint_path(env_name))
          => TimerEpoch(timer') >= TimerEpoch(timer)]_vars

\* C13 amended: the epoch counter is a non-negative integer; no step of
\* train or save decreases it; it equals the loop index when train_epoch
\* starts and the loop index plus one when train_epoch has completed; a
\* successful restore sets it to the value recorded in the checkpoint (which
\* is lower than the current one when the run has trained past that
\* checkpoint).
C13_EpochCounter ==
    [][/\ TimerEpoch(timer') \in Nat
       /\ ret'.op \in {"train", "save"} => TimerEpoch(timer') >= TimerEpoch(timer)
       /\ (pc' = "train_epoch" /\ tr'.batch = 0) => TimerEpoch(timer') = tr'.epoch
       /\ pc' = "epoch_end" => TimerEpoch(timer') = tr'.epoch + 1
       /\ (ret'.op = "restore" /\ ret'.value = "state")
             => TimerEpoch(timer') = fs[ret'.path].epoch]_vars

\* A train resumed from a restored checkpoint has completed its second
\* train_epoch over a loader of several batches, past the epoch recorded in
\* the run's checkpoint.
C13_Witness ==
    /\ pc = "epoch_end"
    /\ ret.prev = "state"
    /\ tr.epoch = tr.epoch0 + 1
    /\ timer.batches_in_epoch >= 2
    /\ fs[checkpoint_path(env_name)] # NoFile
    /\ fs[checkpoint_path(env_name)].epoch < TimerEpoch(timer)

Consecutive(seq) == \A i \in DOMAIN seq : seq[i] = i - 1

C15_RunIdentifierAndFile ==
    [][/\ env_name' # env_name
             => \/ ret'.op = "init"
                \/ /\ ret'.op = "restore"
                   /\ ret'.value = "state"
                   /\ env_name' = fs[ret'.path].env_name
       /\ (ret'.op = "restore" /\ ret'.value = "None") => env_name' = env_name
       /\ ret'.op \in {"train", "save"} => env_name' = env_name
       /\ \A p \in Paths :
             fs'[p] # fs[p]
                => /\ p = checkpoint_path(env_name)
                   /\ ret'.op \in {"train", "save"}
                   /\ fs'[p] = state_dict(model', timer', env_name')
       /\ \A p \in Paths : fs'[p] # NoFile => p = checkpoint_path(fs'[p].env_name)]_vars

\* A run with a suffix that was resumed from its checkpoint has completed
\* its second evaluation epoch since; the checkpoint of the other run exists
\* too, and the file of the resumed run holds the state of the latest epoch.
C15_Witness ==
    /\ EpochProcessed
    /\ ret.prev = "state"
    /\ env_name = EnvName(DefaultCriterion, "s")
    /\ tr.step = 1
    /\ tr.epoch = tr.epoch0 + 2
    /\ Occurs("save")
    /\ fs[checkpoint_path(EnvName(DefaultCriterion, ""))] # NoFile
    /\ fs[checkpoint_path(env_name)] = state_dict(model, timer, env_name)

IsEvaluationStep(e) ==
    e \in {"full_forward", "calibrate", "epoch_finished", "get_adversarial_examples",
           "plot_adversarial_examples", "train_mask", "update_loss_full", "save"}

\* The steps of an evaluation epoch in the order the claim gives them.
OrderedSteps(adversarial, mask_explain) ==
    <<"full_forward", "calibrate", "epoch_finished">>
        \o (IF adversarial
            THEN <<"get_adversarial_examples", "plot_adversarial_examples">> ELSE <<>>)
        \o (IF mask_explain THEN <<"train_mask">> ELSE <<>>)
        \o <<"update_loss_full", "save">>

IsPrefix(a, b) == Len(a) <= Len(b) /\ \A i \in DOMAIN a : a[i] = b[i]

\* C16: order of the steps of an evaluation epoch. The evaluation steps that
\* have run after train_epoch are, in order and each once, an initial part
\* of: full-dataset forward pass, calibration, epoch-finished event,
\* adversarial generation and plot (only if adversarial), mask training
\* (only if mask_explain), full-dataset loss, checkpoint write; they come
\* after the averaged batch loss of train_epoch, and a completed evaluation
\* epoch has run all of them, the checkpoint write last.
C16_EvaluationOrder ==
    ret.op = "train"
        => LET steps == SelectSeq(events, IsEvaluationStep)
               expected == OrderedSteps(tr.adversarial, tr.mask_explain)
           IN  /\ IsPrefix(steps, expected)
               /\ \A i, j \in DOMAIN events :
                     (IsEvaluationStep(events[i]) /\ events[j] = "update_loss_batch")
                        => j < i
               /\ (EpochProcessed /\ (tr.epoch - 1) % tr.step = 0)
                     => /\ steps = expected
                        /\ events[Len(events)] = "save"

\* An evaluation epoch with the adversarial and the mask step completed on a
\* loader of several batches.
C16_Witness ==
    /\ EpochProcessed
    /\ tr.adversarial
    /\ tr.mask_explain
    /\ timer.batches_in_epoch >= 2
    /\ Occurs("plot_adversarial_examples")
    /\ Occurs("train_mask")
    /\ events[Len(events)] = "save"

IsBatchStep(e) == e \in {"train_batch", "batch_finished", "update_loss_batch"}

\* n times train_batch followed by its batch-finished event.
BatchSteps(n) ==
    [i \in 1..(2 * n) |-> IF i % 2 = 1 THEN "train_batch" ELSE "batch_finished"]

TrainRunning == ret.op = "train" /\ ret.outcome = "running"

\* C17: driver iteration count and termination. A train(n_epoch=k) that was
\* called returns; the range of epoch indices is the one fixed at the call;
\* when it returns train_epoch has been called exactly k times, with the
\* indices e0, e0+1, ..., e0+k-1; a completed train_epoch has called
\* train_batch once per batch of the loader, each followed by one
\* batch-finished event, and then pushed the averaged batch loss once; the
\* run metadata is logged before the first train_batch of the call.
C17_DriverIterations ==
    /\ [](ret.op = "train"
            => /\ tr.stop = tr.epoch0 + tr.n_epoch
               /\ IsPrefix(tr.called, [i \in 1..tr.n_epoch |-> tr.epoch0 + i - 1])
               /\ TrainReturned => Len(tr.called) = tr.n_epoch
               /\ pc = "epoch_end"
                     => SelectSeq(events, IsBatchStep)
                           = BatchSteps(timer.batches_in_epoch) \o <<"update_loss_batch">>
               /\ pc = "train_epoch"
                     => \/ tr.batch = 0
                        \/ SelectSeq(events, IsBatchStep) = BatchSteps(tr.batch)
               /\ (tr.epoch = tr.epoch0 /\ pc # "idle")
                     => /\ IsPrefix(Metadata, events)
                        /\ \A i \in DOMAIN events :
                              events[i] = "train_batch" => i > Len(Metadata))
    /\ (TrainRunning ~> TrainReturned)

\* A train called at a positive epoch returned after two epochs of several
\* batches each.
C17_Witness ==
    /\ TrainReturned
    /\ tr.epoch0 >= 1
    /\ tr.n_epoch = 2
    /\ tr.called = <<tr.epoch0, tr.epoch0 + 1>>
    /\ timer.batches_in_epoch >= 2

ComputationFailures == {"train_batch", "full_forward", "adversarial"}

\* C18: computation failures propagate and leave the last checkpoint intact.
\* A step in which train_batch, the full-dataset forward pass or the
\* adversarial generator fails during epoch e ends the train call with that
\* failure, trains no later epoch and changes no checkpoint file; afterwards
\* the checkpoint of the run, if there is one, is the one recorded before
\* epoch e completed.
C18_FailurePropagates ==
    [][(/\ ret.op = "train"
        /\ ret.outcome = "running"
        /\ ret'.op = "train"
        /\ ret'.outcome = "raised"
        /\ ret'.error \in ComputationFailures)
          => /\ pc' = "idle"
             /\ tr'.epoch = tr.epoch
             /\ tr'.called = IF pc = "train_epoch" /\ tr.batch = 0
                             THEN Append(tr.called, tr.epoch) ELSE tr.called
             /\ fs' = fs
             /\ \A p \in Paths : fs'[p] # NoFile => fs'[p].epoch <= tr.epoch]_vars

\* The adversarial generator failed in an evaluation epoch that is not the
\* first of the call, while the checkpoint written at the previous
\* evaluation epoch is the run's checkpoint.
C18_Witness ==
    /\ ret.op = "train"
    /\ ret.outcome = "raised"
    /\ ret.error = "adversarial"
    /\ tr.epoch > tr.epoch0
    /\ fs[checkpoint_path(env_name)] # NoFile
    /\ fs[checkpoint_path(env_name)].epoch = tr.epoch
    /\ saved[checkpoint_path(env_name)].applied = [i \in 1..tr.epoch |-> i - 1]

RECURSIVE SumSeq(_)
SumSeq(seq) == IF seq = <<>> THEN 0 ELSE Head(seq) + SumSeq(Tail(seq))

\* C19: the running-mean precondition is met by the driver. An orchestrator
\* whose construction returned has a loader of at least one batch; in every
\* train_epoch the accumulator holds exactly the losses of the batches
\* trained so far in this epoch (it starts empty and gets one update per
\* batch); when the loop has ended it holds at least one observation, so
\* the mean is defined, and the value pushed under the batch cadence is the
\* mean of the losses of exactly the batches of this epoch.
C19_RunningMean ==
    /\ ~Unconstructed => timer.batches_in_epoch >= 1
    /\ (ret.op = "train" /\ tr.batch > 0)
          => /\ tr.loss_batch_average.count = tr.batch
             /\ Len(tr.losses) = tr.batch
             /\ tr.loss_batch_average.total = SumSeq(tr.losses)
    /\ pc = "epoch_end"
          => /\ tr.batch = timer.batches_in_epoch
             /\ tr.loss_batch_average.count >= 1
             /\ tr.pushed = [num |-> SumSeq(tr.losses), den |-> timer.batches_in_epoch]
    /\ tr.pushed # NoMean

\* The second epoch of a train call ended over a loader of several batches
\* with different losses, and their mean was pushed.
C19_Witness ==
    /\ pc = "epoch_end"
    /\ tr.epoch > tr.epoch0
    /\ timer.batches_in_epoch >= 2
    /\ tr.losses[1] # tr.losses[2]
    /\ tr.pushed.den = Len(tr.losses)
    /\ tr.pushed.num = SumSeq(tr.losses)
====
